---- MODULE Spec2Model ----
(***************************************************************************)
(* Model of minikube's "node add" command (cmd/minikube/cmd/node_add.go)   *)
(* and of the --os flag parsing and validation it relies on.               *)
(*                                                                         *)
(* Go strings are modelled as sequences of one-character strings, so that  *)
(* strings.Split, strings.Join and the %s verbs of errors.Errorf are       *)
(* computed character by character, as the library computes them.          *)
(***************************************************************************)
EXTENDS Integers, Sequences, FiniteSets, TLC

(***************************************************************************)
(* String literals of the source.                                          *)
(***************************************************************************)
StrLinux == <<"l", "i", "n", "u", "x">>
StrWindows == <<"w", "i", "n", "d", "o", "w", "s">>
StrOs == <<"o", "s">>
StrVersion == <<"v", "e", "r", "s", "i", "o", "n">>
Str2022 == <<"2", "0", "2", "2">>
Str2019 == <<"2", "0", "1", "9">>
StrFoo == <<"f", "o", "o">>
StrEmpty == <<>>
Comma == ","
Equals == "="

\* errors.Errorf("Invalid OS: %s. Valid OS are: %s", ...): the text around the verbs
FmtInvalidOSHead == <<"I", "n", "v", "a", "l", "i", "d", " ", "O", "S", ":", " ">>
FmtInvalidOSMid == <<".", " ", "V", "a", "l", "i", "d", " ", "O", "S", " ", "a", "r", "e", ":", " ">>
\* errors.Errorf("Invalid format for --os flag: %s", ...)
FmtInvalidFormatHead == <<"I", "n", "v", "a", "l", "i", "d", " ", "f", "o", "r", "m", "a", "t", " ",
                          "f", "o", "r", " ", "-", "-", "o", "s", " ", "f", "l", "a", "g", ":", " ">>
\* strings.Join(validOptions, ", "): the separator
JoinSep == <<",", " ">>

(***************************************************************************)
(* Go's error values: nil, or an error carrying a message.                 *)
(***************************************************************************)
NilErr == [nil |-> TRUE, msg |-> <<>>]
Errorf(m) == [nil |-> FALSE, msg |-> m]

(***************************************************************************)
(* strings.Split(s, sep) for a one-character separator: the substrings     *)
(* between the separators, so n separators give n+1 substrings and the     *)
(* empty string gives one empty substring.                                 *)
(***************************************************************************)
Split(s, sep) ==
    LET seps == {i \in 1..Len(s) : s[i] = sep}
        n == Cardinality(seps)
        \* where the k-th separator stands; the ends of s count as separators
        SepAt(k) == IF k = 0 THEN 0
                    ELSE IF k = n + 1 THEN Len(s) + 1
                    ELSE CHOOSE i \in seps : Cardinality({j \in seps : j <= i}) = k
    IN [k \in 1..(n + 1) |-> SubSeq(s, SepAt(k - 1) + 1, SepAt(k) - 1)]

(***************************************************************************)
(* strings.Join(elems, sep)                                                *)
(***************************************************************************)
RECURSIVE Join(_, _)
Join(elems, sep) ==
    IF Len(elems) = 0 THEN <<>>
    ELSE IF Len(elems) = 1 THEN elems[1]
    ELSE elems[1] \o sep \o Join(Tail(elems), sep)

(***************************************************************************)
(* node.ValidOS(): the supported OS kinds, in their canonical order.       *)
(***************************************************************************)
ValidOS == <<StrLinux, StrWindows>>

(***************************************************************************)
(* validateOS(os): nil when os equals one of the valid options, else the   *)
(* "Invalid OS" error naming os and the joined valid options.              *)
(***************************************************************************)
\* a variant that stops at the first valid option
validateOS_FirstOnly(os) ==
    IF os = ValidOS[1]
    THEN NilErr
    ELSE Errorf(FmtInvalidOSHead \o os \o FmtInvalidOSMid \o Join(ValidOS, JoinSep))

validateOS(os) ==
    IF \E i \in 1..Len(ValidOS) : os = ValidOS[i]
    THEN NilErr
    ELSE Errorf(FmtInvalidOSHead \o os \o FmtInvalidOSMid \o Join(ValidOS, JoinSep))

(***************************************************************************)
(* parseOSFlag(osFlagValue): the flag is split on ",", each part on "=";   *)
(* a part that does not give exactly two pieces ends the parse with the    *)
(* "Invalid format" error; otherwise osInfo[kv[0]] = kv[1].  osInfo is a   *)
(* Go map: assigning a new key extends it.                                 *)
(***************************************************************************)
DefaultOsInfo == [k \in {StrOs, StrVersion} |-> IF k = StrOs THEN StrLinux ELSE StrEmpty]

MapSet(m, k, v) == [x \in (DOMAIN m) \cup {k} |-> IF x = k THEN v ELSE m[x]]

ParseResult(os, version, err) == [os |-> os, version |-> version, err |-> err]

\* a variant of the tail of parseOSFlag without the windows default version
FinishParse_NoDefault(osInfo) ==
    ParseResult(osInfo[StrOs], osInfo[StrVersion], NilErr)

\* the tail of parseOSFlag: the windows default version and the return
FinishParse(osInfo) ==
    IF osInfo[StrOs] = StrWindows /\ osInfo[StrVersion] = StrEmpty
    THEN ParseResult(StrWindows, Str2022, NilErr)
    ELSE ParseResult(osInfo[StrOs], osInfo[StrVersion], NilErr)

\* a variant that passes over a part without exactly two pieces
RECURSIVE ParseParts_SkipShort(_, _, _, _)
ParseParts_SkipShort(parts, i, osInfo, osFlagValue) ==
    IF i > Len(parts) THEN FinishParse(osInfo)
    ELSE LET kv == Split(parts[i], Equals)
         IN IF Len(kv) # 2
            THEN ParseParts_SkipShort(parts, i + 1, osInfo, osFlagValue)
            ELSE ParseParts_SkipShort(parts, i + 1, MapSet(osInfo, kv[1], kv[2]), osFlagValue)

RECURSIVE ParseParts(_, _, _, _)
ParseParts(parts, i, osInfo, osFlagValue) ==
    IF i > Len(parts) THEN FinishParse(osInfo)
    ELSE LET kv == Split(parts[i], Equals)
         IN IF Len(kv) # 2
            THEN ParseResult(StrEmpty, StrEmpty, Errorf(FmtInvalidFormatHead \o osFlagValue))
            ELSE ParseParts(parts, i + 1, MapSet(osInfo, kv[1], kv[2]), osFlagValue)

parseOSFlag(osFlagValue) ==
    ParseParts(Split(osFlagValue, Comma), 1, DefaultOsInfo, osFlagValue)

(***************************************************************************)
(* Collaborators of the command that live in other packages.               *)
(***************************************************************************)
\* validateWindowsOSVersion(version): the supported Windows Server releases
ValidWindowsVersions == {Str2019, Str2022}
ErrInvalidWindowsVersion == Errorf(<<"InvalidWindowsVersion">>)

validateWindowsOSVersion(version) ==
    IF version \in ValidWindowsVersions THEN NilErr ELSE ErrInvalidWindowsVersion

\* driver.BareMetal(cc.Driver): the none driver runs on the host itself
DriverNone == "none"
DriverDocker == "docker"
BareMetal(driver) == driver = DriverNone

\* config.IsHA(*cc) and cni.IsDisabled(*cc)
IsHA(c) == c.HA
IsDisabled(c) == c.CNIDisabled

\* node.Name(id) and node.ID(name): a name encodes an id, names that encode
\* none (legacy or hand-edited profiles) make node.ID fail
Name(id) == <<"m", id>>
LegacyName == <<"legacy", 0>>
IDFails(nodeName) == nodeName[1] # "m"
ID(nodeName) == nodeName[2]

\* the error node.Add returns when provisioning or starting the node fails
ErrNodeAdd == Errorf(<<"node.Add">>)

\* maybeDeleteAndRetry(cmd, *cc, n, nil, err): with delete-on-failure the
\* cluster is deleted and started again, which succeeds or fails; without it
\* the original error is returned and nothing is attempted
RetryOutcomes(deleteOnFailure) ==
    IF deleteOnFailure THEN {"recovered", "retryFailed"} ELSE {"originalErr"}

(***************************************************************************)
(* Bounds of the model.                                                    *)
(***************************************************************************)
\* inputs of the pure functions: concatenations of at most MaxAtoms atoms
MaxAtoms == 4

Atoms == {<<Comma>>, <<Equals>>, StrOs \o <<Equals>>, StrVersion \o <<Equals>>,
          StrWindows, StrLinux, Str2022}

RECURSIVE Concat(_)
Concat(ss) == IF Len(ss) = 0 THEN <<>> ELSE ss[1] \o Concat(Tail(ss))

AtomSeqs == UNION {[1..k -> Atoms] : k \in 0..MaxAtoms}
\* the arguments the tests and the help text use
NamedInputs ==
    { StrFoo,
      StrOs \o <<Equals>> \o StrWindows \o <<Comma>> \o StrVersion \o <<Equals>> \o Str2022,
      StrOs \o <<Equals>> \o StrWindows \o <<Comma>> \o StrVersion }

Inputs == {Concat(ss) : ss \in AtomSeqs} \cup NamedInputs

\* the default of the --os flag registered in init()
OsFlagDefault == StrLinux

\* values of the --os flag given on the command line
OsFlagValues ==
    { StrEmpty,
      StrLinux,
      StrOs \o <<Equals>> \o StrLinux,
      StrOs \o <<Equals>> \o StrWindows,
      StrOs \o <<Equals>> \o StrWindows \o <<Comma>> \o StrVersion \o <<Equals>> \o Str2022,
      StrOs \o <<Equals>> \o StrWindows \o <<Comma>> \o StrVersion \o <<Equals>> \o StrFoo,
      StrOs \o <<Equals>> \o StrLinux \o <<Comma>> \o StrVersion \o <<Equals>> \o StrFoo,
      StrOs \o <<Equals>> \o StrFoo,
      StrOs \o <<Equals>>,
      StrOs \o <<Equals>> \o StrWindows \o <<Comma>> \o StrVersion }

\* the value cc.Memory is lowered to for the first additional node
ReducedMemory == 2200

InitialMemories == {4000}
InitialNodeNames ==
    {<<Name(1)>>, <<LegacyName>>, <<Name(1), Name(2)>>, <<Name(1), LegacyName>>,
     <<Name(1), Name(3)>>, <<Name(1), Name(2), Name(3)>>}

KubernetesVersion == "v1.30.0"

Node(nodeName, worker, controlPlane) ==
    [Name |-> nodeName, Worker |-> worker, ControlPlane |-> controlPlane,
     KubernetesVersion |-> KubernetesVersion]

PrimaryNodes(names) == [i \in 1..Len(names) |-> Node(names[i], TRUE, i = 1)]

Profiles ==
    [Driver : {DriverNone, DriverDocker}, HA : BOOLEAN, MultiNodeRequested : BOOLEAN,
     CNIDisabled : BOOLEAN, Memory : InitialMemories,
     Nodes : {PrimaryNodes(names) : names \in InitialNodeNames}]

(***************************************************************************)
(* State.                                                                  *)
(***************************************************************************)
VARIABLES
    arg,                 \* the argument of the function under test
    ret,                 \* what the last call of parseOSFlag / validateOS returned
    profile,             \* the cluster configuration saved on disk
    cpNode,              \* --control-plane
    workerNode,          \* --worker
    deleteNodeOnFailure, \* --delete-on-failure
    osTypeFlag,          \* the package variable osType, bound to --os
    osFlagChanged,       \* whether --os was given on the command line
    memorySet,           \* viper.GetString(memory) # ""
    pc,                  \* where Run stands
    osType,              \* Run's local osType
    windowsVersion,      \* Run's local windowsVersion
    err,                 \* Run's err (parseOSFlag's, then node.ID's)
    addErr,              \* the err of `if err := node.Add(...)`
    cc,                  \* co.Config, once loaded
    name,                \* the name of the node being added
    calls,               \* how often each collaborator was called in this run
    out,                 \* what the run printed, in order
    exitReason,          \* the reason the process exited with, if it did
    powershell,          \* the package variable powershell, set by init()
    klog,                \* the entries written with klog.Infof, in order
    frame,               \* the call of cmdOut / CmdOutSSH in progress
    buffers,             \* the stdout and stderr buffers of the latest call
    streams,             \* the ssh client: its sessions, and what ran on them
    children,            \* how many child processes exec has started
    execCalls,           \* how many calls of the package have been made
    result               \* what the latest call returned to its caller

flags == <<cpNode, workerNode, deleteNodeOnFailure, osTypeFlag, osFlagChanged, memorySet>>
locals == <<osType, windowsVersion, err, addErr, cc, name>>
exec == <<powershell, klog, frame, buffers, streams, children, execCalls, result>>
vars == <<arg, ret, profile, flags, pc, locals, calls, out, exitReason, exec>>
pure == <<arg, ret>>

NoConfig == [loaded |-> FALSE]
NoName == <<"", 0>>
NoCalls == [Healthy |-> 0, Add |-> 0, DeleteAndRetry |-> 0, SaveProfile |-> 0]
NoRet == [fn |-> "none", os |-> StrEmpty, version |-> StrEmpty, err |-> NilErr]

\* exec.LookPath("powershell.exe") when the interpreter is installed
StrPowershellExe == <<"p", "o", "w", "e", "r", "s", "h", "e", "l", "l", ".", "e", "x", "e">>

NoFrame == [pc |-> "idle", fn |-> "none", command |-> StrEmpty, err |-> NilErr]
NoBuffers == [stdout |-> StrEmpty, stderr |-> StrEmpty]
NoStreams == [opened |-> 0, failed |-> 0, ran |-> 0, closed |-> 0, clientClosed |-> FALSE]
NoResult == [fn |-> "none", stdout |-> StrEmpty, err |-> NilErr, ran |-> FALSE]

\* Run and the functions under test, which the powershell package leaves alone
workflow == <<arg, ret, profile, flags, pc, locals, calls, out, exitReason>>

\* no call of the powershell package has been made
ExecIdle ==
    /\ klog = <<>>
    /\ frame = NoFrame
    /\ buffers = NoBuffers
    /\ streams = NoStreams
    /\ children = 0
    /\ execCalls = 0
    /\ result = NoResult

(***************************************************************************)
(* The pure functions, called on an argument of their own.                 *)
(***************************************************************************)
CallParseOSFlag ==
    /\ ret' = [fn |-> "parseOSFlag"] @@ parseOSFlag(arg)
    /\ UNCHANGED <<exec, arg, profile, flags, pc, locals, calls, out, exitReason>>

CallValidateOS ==
    /\ ret' = [fn |-> "validateOS", os |-> StrEmpty, version |-> StrEmpty,
               err |-> validateOS(arg)]
    /\ UNCHANGED <<exec, arg, profile, flags, pc, locals, calls, out, exitReason>>

(***************************************************************************)
(* nodeAddCmd.Run, one action per statement group.                         *)
(***************************************************************************)
Running == pc \notin {"idle", "done", "exit"}

\* exit.Message / exit.Error: the process ends with the given reason
ExitWith(reason) ==
    /\ pc' = "exit"
    /\ exitReason' = reason

\* `minikube node add` is started with some flags; flags not given keep the
\* defaults registered in init()
Invoke ==
    /\ pc = "idle"
    /\ cpNode' \in BOOLEAN
    /\ workerNode' \in BOOLEAN
    /\ deleteNodeOnFailure' \in BOOLEAN
    /\ memorySet' \in BOOLEAN
    /\ osFlagChanged' \in BOOLEAN
    /\ IF osFlagChanged' THEN osTypeFlag' \in OsFlagValues ELSE osTypeFlag' = OsFlagDefault
    /\ pc' = "parseOSFlag"
    /\ osType' = StrEmpty
    /\ windowsVersion' = StrEmpty
    /\ err' = NilErr
    /\ addErr' = NilErr
    /\ cc' = NoConfig
    /\ name' = NoName
    /\ calls' = NoCalls
    /\ out' = <<>>
    /\ exitReason' = "none"
    /\ UNCHANGED <<exec, pure, profile>>

\* osType, windowsVersion, err := parseOSFlag(osType); exit on err
ParseOS ==
    /\ pc = "parseOSFlag"
    /\ LET r == parseOSFlag(osTypeFlag)
       IN /\ osType' = r.os
          /\ windowsVersion' = r.version
          /\ err' = r.err
          /\ IF r.err.nil
             THEN pc' = "validateOS" /\ UNCHANGED exitReason
             ELSE ExitWith("Usage")
    /\ UNCHANGED <<exec, pure, profile, flags, addErr, cc, name, calls, out>>

\* if err := validateOS(osType); err != nil { exit.Message(reason.Usage, ...) }
ValidateOS ==
    /\ pc = "validateOS"
    /\ IF validateOS(osType).nil
       THEN pc' = "validateWindowsOSVersion" /\ UNCHANGED exitReason
       ELSE ExitWith("Usage")
    /\ UNCHANGED <<exec, pure, profile, flags, locals, calls, out>>

\* if windowsVersion != "" { validateWindowsOSVersion(windowsVersion); exit on err }
ValidateWindowsVersion ==
    /\ pc = "validateWindowsOSVersion"
    /\ IF windowsVersion # StrEmpty /\ ~validateWindowsOSVersion(windowsVersion).nil
       THEN ExitWith("Usage")
       ELSE pc' = "checkWindowsControlPlane" /\ UNCHANGED exitReason
    /\ UNCHANGED <<exec, pure, profile, flags, locals, calls, out>>

\* a variant without the windows control-plane check
CheckWindowsControlPlane_NoExit ==
    /\ pc = "checkWindowsControlPlane"
    /\ pc' = "mustload.Healthy"
    /\ UNCHANGED <<exec, pure, profile, flags, locals, calls, out, exitReason>>

\* if osType == "windows" && cpNode { exit.Message(reason.Usage, ...) }
CheckWindowsControlPlane ==
    /\ pc = "checkWindowsControlPlane"
    /\ IF osType = StrWindows /\ cpNode
       THEN ExitWith("Usage")
       ELSE pc' = "mustload.Healthy" /\ UNCHANGED exitReason
    /\ UNCHANGED <<exec, pure, profile, flags, locals, calls, out>>

\* co := mustload.Healthy(ClusterFlagValue()); cc := co.Config
\* (mustload exits by itself when the cluster is not running)
LoadConfig ==
    /\ pc = "mustload.Healthy"
    /\ calls' = [calls EXCEPT !.Healthy = @ + 1]
    /\ \E healthy \in BOOLEAN :
         IF healthy
         THEN /\ cc' = [loaded |-> TRUE] @@ profile
              /\ pc' = "checkBareMetal"
              /\ UNCHANGED exitReason
         ELSE /\ ExitWith("mustload")
              /\ UNCHANGED cc
    /\ UNCHANGED <<exec, pure, profile, flags, osType, windowsVersion, err, addErr, name, out>>

\* if driver.BareMetal(cc.Driver) { out.FailureT(...) }: the message is
\* printed and Run goes on
CheckBareMetal ==
    /\ pc = "checkBareMetal"
    /\ out' = IF BareMetal(cc.Driver) THEN Append(out, "FailureNoneDriver") ELSE out
    /\ pc' = "checkHA"
    /\ UNCHANGED <<exec, pure, profile, flags, locals, calls, exitReason>>

\* if cpNode && !config.IsHA(*cc) { out.FailureT(...) }: the message is
\* printed and Run goes on
CheckHA ==
    /\ pc = "checkHA"
    /\ out' = IF cpNode /\ ~IsHA(cc) THEN Append(out, "FailureNonHA") ELSE out
    /\ pc' = "allocateName"
    /\ UNCHANGED <<exec, pure, profile, flags, locals, calls, exitReason>>

\* a variant that numbers the new node by the count of nodes alone
AllocateName_UseCount ==
    /\ pc = "allocateName"
    /\ LET last == cc.Nodes[Len(cc.Nodes)].Name
           lastID == Len(cc.Nodes)
       IN /\ err' = (IF IDFails(last) THEN Errorf(<<"node.ID">>) ELSE NilErr)
          /\ name' = Name(lastID + 1)
          /\ out' = (IF IDFails(last) THEN Append(out, "ErrLnLastNodeIndex") ELSE out)
                      \o <<"StepAddingNode">>
    /\ pc' = "adjustDefaults"
    /\ UNCHANGED <<exec, pure, profile, flags, osType, windowsVersion, addErr, cc, calls, exitReason>>

\* a variant that gives up when the last node's name has no id
AllocateName_AbortOnErr ==
    /\ pc = "allocateName"
    /\ LET last == cc.Nodes[Len(cc.Nodes)].Name
       IN IF IDFails(last)
          THEN /\ err' = Errorf(<<"node.ID">>)
               /\ out' = Append(out, "ErrLnLastNodeIndex")
               /\ ExitWith("Usage")
               /\ UNCHANGED name
          ELSE /\ err' = NilErr
               /\ name' = Name(ID(last) + 1)
               /\ out' = Append(out, "StepAddingNode")
               /\ pc' = "adjustDefaults"
               /\ UNCHANGED exitReason
    /\ UNCHANGED <<exec, pure, profile, flags, osType, windowsVersion, addErr, cc, calls>>

\* roles (used in the message only); lastID, err := node.ID(last node's name);
\* on err lastID = len(cc.Nodes) and a diagnostic; name := node.Name(lastID + 1);
\* out.Step("Adding node ...")
AllocateName ==
    /\ pc = "allocateName"
    /\ LET last == cc.Nodes[Len(cc.Nodes)].Name
           lastID == IF IDFails(last) THEN Len(cc.Nodes) ELSE ID(last)
       IN /\ err' = (IF IDFails(last) THEN Errorf(<<"node.ID">>) ELSE NilErr)
          /\ name' = Name(lastID + 1)
          /\ out' = (IF IDFails(last) THEN Append(out, "ErrLnLastNodeIndex") ELSE out)
                      \o <<"StepAddingNode">>
    /\ pc' = "adjustDefaults"
    /\ UNCHANGED <<exec, pure, profile, flags, osType, windowsVersion, addErr, cc, calls, exitReason>>

\* a variant that lowers the memory whether or not it was set explicitly
AdjustDefaults_AlwaysReduce ==
    /\ pc = "adjustDefaults"
    /\ IF Len(cc.Nodes) = 1
       THEN /\ cc' = [cc EXCEPT !.Memory = ReducedMemory]
            /\ out' = IF ~cc.MultiNodeRequested \/ IsDisabled(cc)
                      THEN Append(out, "WarnMultiNodeCNI") ELSE out
       ELSE UNCHANGED <<cc, out>>
    /\ pc' = "node.Add"
    /\ UNCHANGED <<exec, pure, profile, flags, osType, windowsVersion, err, addErr, name, calls,
                   exitReason>>

\* a variant that warns only when both conditions hold
AdjustDefaults_WarnAnd ==
    /\ pc = "adjustDefaults"
    /\ IF Len(cc.Nodes) = 1
       THEN /\ cc' = IF ~memorySet THEN [cc EXCEPT !.Memory = ReducedMemory] ELSE cc
            /\ out' = IF ~cc.MultiNodeRequested /\ IsDisabled(cc)
                      THEN Append(out, "WarnMultiNodeCNI") ELSE out
       ELSE UNCHANGED <<cc, out>>
    /\ pc' = "node.Add"
    /\ UNCHANGED <<exec, pure, profile, flags, osType, windowsVersion, err, addErr, name, calls,
                   exitReason>>

\* if len(cc.Nodes) == 1 { if memory not set { cc.Memory = 2200 };
\*                         if !cc.MultiNodeRequested || cni.IsDisabled(*cc) { warn } }
AdjustDefaults ==
    /\ pc = "adjustDefaults"
    /\ IF Len(cc.Nodes) = 1
       THEN /\ cc' = IF ~memorySet THEN [cc EXCEPT !.Memory = ReducedMemory] ELSE cc
            /\ out' = IF ~cc.MultiNodeRequested \/ IsDisabled(cc)
                      THEN Append(out, "WarnMultiNodeCNI") ELSE out
       ELSE UNCHANGED <<cc, out>>
    /\ pc' = "node.Add"
    /\ UNCHANGED <<exec, pure, profile, flags, osType, windowsVersion, err, addErr, name, calls,
                   exitReason>>

\* err := node.Add(cc, n, deleteNodeOnFailure): the node joins cc.Nodes and is
\* provisioned and started, which succeeds or fails
NodeAdd ==
    /\ pc = "node.Add"
    /\ calls' = [calls EXCEPT !.Add = @ + 1]
    /\ cc' = [cc EXCEPT !.Nodes = Append(@, Node(name, workerNode, cpNode))]
    /\ \E ok \in BOOLEAN :
         IF ok
         THEN addErr' = NilErr /\ pc' = "config.SaveProfile"
         ELSE addErr' = ErrNodeAdd /\ pc' = "maybeDeleteAndRetry"
    /\ UNCHANGED <<exec, pure, profile, flags, osType, windowsVersion, err, name, out, exitReason>>

\* a variant that drops the error maybeDeleteAndRetry returns
DeleteAndRetry_IgnoreErr ==
    /\ pc = "maybeDeleteAndRetry"
    /\ \E o \in RetryOutcomes(deleteNodeOnFailure) :
         /\ calls' = IF o = "originalErr" THEN calls
                     ELSE [calls EXCEPT !.DeleteAndRetry = @ + 1]
         /\ pc' = "config.SaveProfile"
    /\ UNCHANGED <<exec, pure, profile, flags, locals, out, exitReason>>

\* a variant that tries the recovery a second time when the first one fails
DeleteAndRetry_Again ==
    /\ pc = "maybeDeleteAndRetry"
    /\ \E o \in RetryOutcomes(deleteNodeOnFailure) :
         /\ calls' = IF o = "originalErr" THEN calls
                     ELSE [calls EXCEPT !.DeleteAndRetry = @ + 1]
         /\ IF o = "recovered"
            THEN pc' = "config.SaveProfile" /\ UNCHANGED exitReason
            ELSE IF o = "retryFailed" /\ calls.DeleteAndRetry = 0
            THEN UNCHANGED <<pc, exitReason>>
            ELSE ExitWith("GuestNodeAdd")
    /\ UNCHANGED <<exec, pure, profile, flags, locals, out>>

\* _, err := maybeDeleteAndRetry(cmd, *cc, n, nil, err);
\* if err != nil { exit.Error(reason.GuestNodeAdd, ...) }
DeleteAndRetry ==
    /\ pc = "maybeDeleteAndRetry"
    /\ \E o \in RetryOutcomes(deleteNodeOnFailure) :
         /\ calls' = IF o = "originalErr" THEN calls
                     ELSE [calls EXCEPT !.DeleteAndRetry = @ + 1]
         /\ IF o = "recovered"
            THEN pc' = "config.SaveProfile" /\ UNCHANGED exitReason
            ELSE ExitWith("GuestNodeAdd")
    /\ UNCHANGED <<exec, pure, profile, flags, locals, out>>

\* a variant that drops the error config.SaveProfile returns
SaveProfile_IgnoreErr ==
    /\ pc = "config.SaveProfile"
    /\ calls' = [calls EXCEPT !.SaveProfile = @ + 1]
    /\ \E ok \in BOOLEAN :
         /\ profile' = IF ok THEN [k \in DOMAIN profile |-> cc[k]] ELSE profile
         /\ pc' = "out.Step"
    /\ UNCHANGED <<exec, pure, flags, locals, out, exitReason>>

\* if err := config.SaveProfile(cc.Name, cc); err != nil { exit.Error(HostSaveProfile) }
SaveProfile ==
    /\ pc = "config.SaveProfile"
    /\ calls' = [calls EXCEPT !.SaveProfile = @ + 1]
    /\ \E ok \in BOOLEAN :
         IF ok
         THEN /\ profile' = [k \in DOMAIN profile |-> cc[k]]
              /\ pc' = "out.Step"
              /\ UNCHANGED exitReason
         ELSE /\ ExitWith("HostSaveProfile")
              /\ UNCHANGED profile
    /\ UNCHANGED <<exec, pure, flags, locals, out>>

\* out.Step(style.Ready, "Successfully added ...")
ReportSuccess ==
    /\ pc = "out.Step"
    /\ out' = Append(out, "StepSuccessfullyAdded")
    /\ pc' = "done"
    /\ UNCHANGED <<exec, pure, profile, flags, locals, calls, exitReason>>

\* the state between two invocations: the flags hold their registered defaults
IdleRun ==
    /\ cpNode = FALSE
    /\ workerNode = TRUE
    /\ deleteNodeOnFailure = FALSE
    /\ osTypeFlag = OsFlagDefault
    /\ osFlagChanged = FALSE
    /\ memorySet = FALSE
    /\ pc = "idle"
    /\ osType = StrEmpty
    /\ windowsVersion = StrEmpty
    /\ err = NilErr
    /\ addErr = NilErr
    /\ cc = NoConfig
    /\ name = NoName
    /\ calls = NoCalls
    /\ out = <<>>
    /\ exitReason = "none"

Step ==
    \/ ParseOS
    \/ ValidateOS
    \/ ValidateWindowsVersion
    \/ CheckWindowsControlPlane
    \/ LoadConfig
    \/ CheckBareMetal
    \/ CheckHA
    \/ AllocateName
    \/ AdjustDefaults
    \/ NodeAdd
    \/ DeleteAndRetry
    \/ SaveProfile
    \/ ReportSuccess

(***************************************************************************)
(* Specifications.                                                         *)
(***************************************************************************)
\* one invocation of `minikube node add` on a cluster
Init ==
    /\ arg = StrEmpty
    /\ ret = NoRet
    /\ profile \in Profiles
    /\ IdleRun
    /\ powershell = StrPowershellExe
    /\ ExecIdle

Next == Invoke \/ Step

Spec == Init /\ [][Next]_vars

\* parseOSFlag and validateOS on arbitrary arguments
InitPure ==
    /\ arg \in Inputs
    /\ ret = NoRet
    /\ profile = CHOOSE p \in Profiles : TRUE
    /\ IdleRun
    /\ powershell = StrPowershellExe
    /\ ExecIdle

NextPure == CallParseOSFlag \/ CallValidateOS

SpecPure == InitPure /\ [][NextPure]_vars

\* node ids of the clusters explored below stay at or under this bound
MaxNodeID == 4

\* `minikube node add --os os=linux` for a worker node, on a cluster that has
\* room for one more node
AddNode ==
    /\ Len(profile.Nodes) < MaxNodeID
    /\ \A i \in 1..Len(profile.Nodes) :
          IDFails(profile.Nodes[i].Name) \/ ID(profile.Nodes[i].Name) < MaxNodeID
    /\ Invoke
    /\ ~cpNode'
    /\ workerNode'
    /\ ~memorySet'
    /\ osFlagChanged'
    /\ osTypeFlag' = StrOs \o <<Equals>> \o StrLinux

\* the process of a run has ended and its state is gone; the next process
\* starts with the flags at their registered defaults
ProcessEnd ==
    /\ pc \in {"done", "exit"}
    /\ cpNode' = FALSE
    /\ workerNode' = TRUE
    /\ deleteNodeOnFailure' = FALSE
    /\ osTypeFlag' = OsFlagDefault
    /\ osFlagChanged' = FALSE
    /\ memorySet' = FALSE
    /\ pc' = "idle"
    /\ osType' = StrEmpty
    /\ windowsVersion' = StrEmpty
    /\ err' = NilErr
    /\ addErr' = NilErr
    /\ cc' = NoConfig
    /\ name' = NoName
    /\ calls' = NoCalls
    /\ out' = <<>>
    /\ exitReason' = "none"
    /\ UNCHANGED <<exec, pure, profile>>

\* s without its i-th element
RemoveAt(s, i) == SubSeq(s, 1, i - 1) \o SubSeq(s, i + 1, Len(s))

\* `minikube node delete`: between two runs one node leaves the saved
\* configuration, the order of the others is kept
RemoveNode ==
    /\ pc = "idle"
    /\ Len(profile.Nodes) > 1
    /\ \E i \in 1..Len(profile.Nodes) :
         profile' = [profile EXCEPT !.Nodes = RemoveAt(@, i)]
    /\ UNCHANGED <<exec, pure, flags, pc, locals, calls, out, exitReason>>

\* a cluster that starts with its primary node alone, and on which nodes are
\* added and deleted, one command after the other
InitCluster ==
    /\ arg = StrEmpty
    /\ ret = NoRet
    /\ profile \in {p \in Profiles : Len(p.Nodes) = 1}
    /\ IdleRun
    /\ powershell = StrPowershellExe
    /\ ExecIdle

NextCluster == AddNode \/ Step \/ ProcessEnd \/ RemoveNode

SpecCluster == InitCluster /\ [][NextCluster]_vars

(***************************************************************************)
(* pkg/minikube/node/powershell.go: cmdOut and cmd run the local           *)
(* interpreter, CmdOutSSH and cmdSSH run it on a session of an ssh client. *)
(***************************************************************************)
Space == <<" ">>
Quote == <<"\"">>
StrNoProfile == <<"-", "N", "o", "P", "r", "o", "f", "i", "l", "e">>
StrNonInteractive == <<"-", "N", "o", "n", "I", "n", "t", "e", "r", "a", "c", "t", "i", "v", "e">>
\* the head of the command CmdOutSSH sends, up to the opening quote
FmtSSHCommand == <<"p", "o", "w", "e", "r", "s", "h", "e", "l", "l", " ", "-", "N", "o", "P", "r", "o", "f", "i", "l", "e", " ", "-", "N", "o", "n", "I", "n", "t", "e", "r", "a", "c", "t", "i", "v", "e", " ", "-", "C", "o", "m", "m", "a", "n", "d", " ", "\"">>

ErrPowerShellNotFound == Errorf(<<"p", "o", "w", "e", "r", "s", "h", "e", "l", "l", " ", "w", "a", "s", " ", "n", "o", "t", " ", "f", "o", "u", "n", "d", " ", "i", "n", " ", "t", "h", "e", " ", "p", "a", "t", "h">>)
\* what cmd.Run returns for exec.Command(""): nothing can be started
ErrExecStart == Errorf(<<"e", "x", "e", "c", ":", " ", "n", "o", " ", "c", "o", "m", "m", "a", "n", "d">>)
\* what cmd.Run returns when the child exits with a status other than 0
ErrExitStatus == Errorf(<<"e", "x", "i", "t", " ", "s", "t", "a", "t", "u", "s", " ", "1">>)
\* what client.NewSession returns when no session can be opened
ErrNewSession == Errorf(<<"s", "s", "h", ":", " ", "n", "e", "w", " ", "s", "e", "s", "s", "i", "o", "n">>)
\* what session.Run returns when the remote command exits with a status other than 0
ErrRemoteExit == Errorf(<<"P", "r", "o", "c", "e", "s", "s", " ", "e", "x", "i", "t", "e", "d", " ", "w", "i", "t", "h", " ", "s", "t", "a", "t", "u", "s", " ", "1">>)

\* what a command leaves in the two buffers
StrOk == <<"o", "k">>
StrErr == <<"e", "r", "r">>

\* a command that ran: it succeeded, or it failed with or without output
RunOutcomes(exitErr) ==
    { [err |-> NilErr, stdout |-> StrOk, stderr |-> StrEmpty],
      [err |-> exitErr, stdout |-> StrOk, stderr |-> StrErr],
      [err |-> exitErr, stdout |-> StrEmpty, stderr |-> StrErr] }

\* the argument lists the callers pass
StrGetVM == <<"G", "e", "t", "-", "V", "M">>
StrVMName == <<"v", "m">>
ArgLists == {<<StrGetVM>>, <<StrGetVM, StrVMName>>}

\* the number of calls explored
MaxCalls == 3

\* cmdOut(args...) or cmd(args...) up to cmd.Run: the flags are put before the
\* arguments, the command is built and its line is logged
CmdOutCall(fn, args) ==
    /\ frame.pc = "idle"
    /\ execCalls < MaxCalls
    /\ execCalls' = execCalls + 1
    /\ LET full == <<StrNoProfile, StrNonInteractive>> \o args
           line == powershell \o Space \o Join(full, Space)
       IN /\ klog' = Append(klog, [tag |-> "[executing ==>]", text |-> line])
          /\ frame' = [pc |-> "cmd.Run", fn |-> fn, command |-> line, err |-> NilErr]
    /\ buffers' = NoBuffers
    /\ UNCHANGED <<workflow, powershell, streams, children, result>>

\* err := cmd.Run(): without a path nothing is started; otherwise a child runs
\* and fills the buffers
CmdOutRun ==
    /\ frame.pc = "cmd.Run"
    /\ IF powershell = StrEmpty
       THEN /\ frame' = [frame EXCEPT !.pc = "cmdOut.return", !.err = ErrExecStart]
            /\ UNCHANGED <<buffers, children>>
       ELSE /\ children' = children + 1
            /\ \E o \in RunOutcomes(ErrExitStatus) :
                 /\ buffers' = [stdout |-> o.stdout, stderr |-> o.stderr]
                 /\ frame' = [frame EXCEPT !.pc = "cmdOut.return", !.err = o.err]
    /\ UNCHANGED <<workflow, powershell, klog, streams, execCalls, result>>

\* a variant that returns no output when the command failed
CmdOutReturn_DropOnErr ==
    /\ frame.pc = "cmdOut.return"
    /\ klog' = klog \o << [tag |-> "[stdout =====>]", text |-> buffers.stdout],
                          [tag |-> "[stderr =====>]", text |-> buffers.stderr] >>
    /\ result' = [fn |-> frame.fn,
                  stdout |-> IF frame.fn = "cmdOut" /\ frame.err.nil
                             THEN buffers.stdout ELSE StrEmpty,
                  err |-> frame.err, ran |-> TRUE]
    /\ frame' = NoFrame
    /\ UNCHANGED <<workflow, powershell, buffers, streams, children, execCalls>>

\* a variant that logs the error stream before the output stream
CmdOutReturn_StderrFirst ==
    /\ frame.pc = "cmdOut.return"
    /\ klog' = klog \o << [tag |-> "[stderr =====>]", text |-> buffers.stderr],
                          [tag |-> "[stdout =====>]", text |-> buffers.stdout] >>
    /\ result' = [fn |-> frame.fn,
                  stdout |-> IF frame.fn = "cmdOut" THEN buffers.stdout ELSE StrEmpty,
                  err |-> frame.err, ran |-> TRUE]
    /\ frame' = NoFrame
    /\ UNCHANGED <<workflow, powershell, buffers, streams, children, execCalls>>

\* the two buffers are logged; cmdOut returns stdout.String() and err, cmd
\* returns err alone
CmdOutReturn ==
    /\ frame.pc = "cmdOut.return"
    /\ klog' = klog \o << [tag |-> "[stdout =====>]", text |-> buffers.stdout],
                          [tag |-> "[stderr =====>]", text |-> buffers.stderr] >>
    /\ result' = [fn |-> frame.fn,
                  stdout |-> IF frame.fn = "cmdOut" THEN buffers.stdout ELSE StrEmpty,
                  err |-> frame.err, ran |-> TRUE]
    /\ frame' = NoFrame
    /\ UNCHANGED <<workflow, powershell, buffers, streams, children, execCalls>>

\* CmdOutSSH(client, script) or cmdSSH(client, args...) up to session.Run: cmdSSH
\* joins its arguments into the script; a session is opened, or the error of
\* NewSession is returned at once; the closing of the session is deferred, the
\* command is built and logged
SSHCall(fn, args) ==
    /\ frame.pc = "idle"
    /\ execCalls < MaxCalls
    /\ execCalls' = execCalls + 1
    /\ LET script == Join(args, Space)
           command == FmtSSHCommand \o script \o Quote
       IN \E ok \in BOOLEAN :
            IF ok
            THEN /\ streams' = [streams EXCEPT !.opened = @ + 1]
                 /\ klog' = Append(klog, [tag |-> "[executing]", text |-> command])
                 /\ frame' = [pc |-> "session.Run", fn |-> fn, command |-> command,
                              err |-> NilErr]
                 /\ buffers' = NoBuffers
                 /\ UNCHANGED result
            ELSE /\ streams' = [streams EXCEPT !.failed = @ + 1]
                 /\ result' = [fn |-> fn, stdout |-> StrEmpty, err |-> ErrNewSession,
                               ran |-> FALSE]
                 /\ UNCHANGED <<klog, frame, buffers>>
    /\ UNCHANGED <<workflow, powershell, children>>

\* err = session.Run(command): the command runs on the session and fills the
\* buffers
SSHRun ==
    /\ frame.pc = "session.Run"
    /\ streams' = [streams EXCEPT !.ran = @ + 1]
    /\ \E o \in RunOutcomes(ErrRemoteExit) :
         /\ buffers' = [stdout |-> o.stdout, stderr |-> o.stderr]
         /\ frame' = [frame EXCEPT !.pc = "CmdOutSSH.return", !.err = o.err]
    /\ UNCHANGED <<workflow, powershell, klog, children, execCalls, result>>

\* a variant that closes the session only after a command that succeeded
SSHReturn_LeakOnErr ==
    /\ frame.pc = "CmdOutSSH.return"
    /\ klog' = klog \o << [tag |-> "[stdout =====>]", text |-> buffers.stdout],
                          [tag |-> "[stderr =====>]", text |-> buffers.stderr] >>
    /\ result' = [fn |-> frame.fn,
                  stdout |-> IF frame.fn = "CmdOutSSH" THEN buffers.stdout ELSE StrEmpty,
                  err |-> frame.err, ran |-> TRUE]
    /\ streams' = IF frame.err.nil THEN [streams EXCEPT !.closed = @ + 1] ELSE streams
    /\ frame' = NoFrame
    /\ UNCHANGED <<workflow, powershell, buffers, children, execCalls>>

\* the two buffers are logged; CmdOutSSH returns stdout.String() and err, cmdSSH
\* returns err alone; the deferred session.Close() runs
SSHReturn ==
    /\ frame.pc = "CmdOutSSH.return"
    /\ klog' = klog \o << [tag |-> "[stdout =====>]", text |-> buffers.stdout],
                          [tag |-> "[stderr =====>]", text |-> buffers.stderr] >>
    /\ result' = [fn |-> frame.fn,
                  stdout |-> IF frame.fn = "CmdOutSSH" THEN buffers.stdout ELSE StrEmpty,
                  err |-> frame.err, ran |-> TRUE]
    /\ streams' = [streams EXCEPT !.closed = @ + 1]
    /\ frame' = NoFrame
    /\ UNCHANGED <<workflow, powershell, buffers, children, execCalls>>

\* calls of the package, one after the other, on a host with or without the
\* interpreter
InitExec ==
    /\ arg = StrEmpty
    /\ ret = NoRet
    /\ profile = CHOOSE p \in Profiles : TRUE
    /\ IdleRun
    /\ powershell \in {StrEmpty, StrPowershellExe}
    /\ ExecIdle

NextExec ==
    \/ \E fn \in {"cmdOut", "cmd"}, args \in ArgLists : CmdOutCall(fn, args)
    \/ CmdOutRun
    \/ CmdOutReturn
    \/ \E fn \in {"CmdOutSSH", "cmdSSH"}, args \in ArgLists : SSHCall(fn, args)
    \/ SSHRun
    \/ SSHReturn

SpecExec == InitExec /\ [][NextExec]_vars

(***************************************************************************)
(* Properties of validateOS and parseOSFlag (checked under SpecPure).      *)
(***************************************************************************)
\* the message TestValidateOS expects for an invalid OS
ExpectedInvalidOS(os) ==
    <<"I", "n", "v", "a", "l", "i", "d", " ", "O", "S", ":", " ">> \o os \o
    <<".", " ", "V", "a", "l", "i", "d", " ", "O", "S", " ", "a", "r", "e", ":", " ",
      "l", "i", "n", "u", "x", ",", " ", "w", "i", "n", "d", "o", "w", "s">>

\* the message of the malformed-format error for a raw flag value
ExpectedInvalidFormat(raw) ==
    <<"I", "n", "v", "a", "l", "i", "d", " ", "f", "o", "r", "m", "a", "t", " ",
      "f", "o", "r", " ", "-", "-", "o", "s", " ", "f", "l", "a", "g", ":", " ">> \o raw

ParsedArg == ret.fn = "parseOSFlag"
ValidatedArg == ret.fn = "validateOS"

\* C1: validateOS(s) returns nil exactly when s is linux or windows; for every
\* other s the error message is "Invalid OS: <s>. Valid OS are: linux, windows"
C1_ValidateOS ==
    ValidatedArg =>
        /\ ret.err.nil <=> arg \in {StrLinux, StrWindows}
        /\ ~ret.err.nil => ret.err.msg = ExpectedInvalidOS(arg)

C1_Witness == ValidatedArg /\ arg = StrFoo /\ ~ret.err.nil

\* the pairs of a descriptor, and a pair's split on its first "="
Pairs(raw) == Split(raw, Comma)
HasEquals(pair) == \E i \in 1..Len(pair) : pair[i] = Equals
FirstEquals(pair) == CHOOSE i \in 1..Len(pair) :
                        pair[i] = Equals /\ \A j \in 1..(i - 1) : pair[j] # Equals
KeyOf(pair) == SubSeq(pair, 1, FirstEquals(pair) - 1)
ValueOf(pair) == SubSeq(pair, FirstEquals(pair) + 1, Len(pair))
WellFormedPair(pair) == HasEquals(pair) /\ KeyOf(pair) # <<>> /\ ValueOf(pair) # <<>>
Malformed(raw) == \E i \in 1..Len(Pairs(raw)) : ~WellFormedPair(Pairs(raw)[i])

\* C3: parseOSFlag fails with the malformed-format error, naming the raw flag
\* value, whenever some pair does not split into two non-empty tokens on its
\* first "="; nothing is returned on rejection
C3_MalformedRejected ==
    (ParsedArg /\ Malformed(arg)) =>
        /\ ~ret.err.nil
        /\ ret.err.msg = ExpectedInvalidFormat(arg)
        /\ ret.os = <<>>
        /\ ret.version = <<>>

\* C4 as claimed: parsing the empty descriptor succeeds with linux and no version
C4_EmptyParsesAsLinux ==
    (ParsedArg /\ arg = <<>>) =>
        ret.err.nil /\ ret.os = StrLinux /\ ret.version = <<>>

\* C4, amended: parsing the empty descriptor fails with the malformed-format
\* error (its single empty pair has no "="), and no OS kind or version is returned
C4_EmptyRejected ==
    (ParsedArg /\ arg = <<>>) =>
        /\ ~ret.err.nil
        /\ ret.err.msg = ExpectedInvalidFormat(<<>>)
        /\ ret.os = <<>>
        /\ ret.version = <<>>

C4_Witness == ParsedArg /\ arg = <<>> /\ ~ret.err.nil

\* the version a descriptor gives: the value of its last version pair, empty
\* when it has none
RECURSIVE LastValue(_, _, _)
LastValue(pairs, key, i) ==
    IF i = 0 THEN <<>>
    ELSE IF HasEquals(pairs[i]) /\ KeyOf(pairs[i]) = key THEN ValueOf(pairs[i])
    ELSE LastValue(pairs, key, i - 1)
GivenVersion(raw) == LastValue(Pairs(raw), StrVersion, Len(Pairs(raw)))

\* C5: when parseOSFlag succeeds with OS kind windows the version is not
\* empty: it is the version the descriptor gives, or "2022" when it gives none or
\* an empty one; for any other kind the version is returned as given
C5_WindowsVersion ==
    (ParsedArg /\ ret.err.nil) =>
        IF ret.os = StrWindows
        THEN /\ ret.version # <<>>
             /\ ret.version = IF GivenVersion(arg) = <<>> THEN Str2022 ELSE GivenVersion(arg)
        ELSE ret.version = GivenVersion(arg)

C5_Witness ==
    /\ ParsedArg
    /\ ret.err.nil
    /\ ret.os = StrWindows
    /\ GivenVersion(arg) = <<>>
    /\ ret.version = Str2022

(***************************************************************************)
(* Properties of nodeAddCmd.Run (checked under Spec and FairSpec).         *)
(***************************************************************************)
Printed(m) == \E i \in 1..Len(out) : out[i] = m
Loaded == cc.loaded

\* C2: when --os is not given the run treats the node as a linux node with an
\* empty version and passes the parse/validate steps without a usage error
C2_DefaultFlagIsLinux ==
    (~osFlagChanged /\ pc \notin {"idle", "parseOSFlag"}) =>
        /\ osType = StrLinux
        /\ windowsVersion = <<>>
        /\ exitReason # "Usage"

\* C6: with --control-plane and a parsed OS kind of windows the run ends before
\* the cluster configuration is loaded: no working copy exists, the profile is
\* not written, and mustload, node.Add, the recovery and SaveProfile are never
\* called
C6_WindowsControlPlaneRejected ==
    (cpNode /\ osType = StrWindows) =>
        /\ pc \in {"validateOS", "validateWindowsOSVersion", "checkWindowsControlPlane", "exit"}
        /\ pc = "exit" => exitReason = "Usage"
        /\ ~Loaded
        /\ calls = NoCalls

C6_Witness ==
    /\ cpNode
    /\ osType = StrWindows
    /\ windowsVersion = Str2022
    /\ pc = "exit"
    /\ exitReason = "Usage"

\* C7: on a cluster whose driver is bare-metal the run is rejected at the driver
\* check: no name is allocated, cc.Memory is not changed, node.Add is not called
\* and the configuration is not saved
C7_BareMetalRejected ==
    (Loaded /\ BareMetal(cc.Driver)) =>
        /\ pc \in {"checkBareMetal", "exit"}
        /\ name = NoName
        /\ cc.Memory = profile.Memory
        /\ calls.Add = 0
        /\ calls.SaveProfile = 0

\* C8: with --control-plane on a cluster that is not HA the run is rejected
\* without touching the node list: node.Add is not called, no node is appended
\* and the configuration is not saved
C8_NonHAControlPlaneRejected ==
    (Loaded /\ cpNode /\ ~IsHA(cc)) =>
        /\ pc \in {"checkBareMetal", "checkHA", "exit"}
        /\ calls.Add = 0
        /\ cc.Nodes = profile.Nodes
        /\ calls.SaveProfile = 0

PcOrder ==
    <<"idle", "parseOSFlag", "validateOS", "validateWindowsOSVersion",
      "checkWindowsControlPlane", "mustload.Healthy", "checkBareMetal", "checkHA",
      "allocateName", "adjustDefaults", "node.Add", "maybeDeleteAndRetry",
      "config.SaveProfile", "out.Step", "done", "exit">>
Rank(p) == CHOOSE i \in 1..Len(PcOrder) : PcOrder[i] = p

\* the steps of Run that follow the parse of the --os flag
StepAfterParse ==
    \/ ValidateOS
    \/ ValidateWindowsVersion
    \/ CheckWindowsControlPlane
    \/ LoadConfig
    \/ CheckBareMetal
    \/ CheckHA
    \/ AllocateName
    \/ AdjustDefaults
    \/ NodeAdd
    \/ DeleteAndRetry
    \/ SaveProfile
    \/ ReportSuccess

C10_AtMostOnce ==
    /\ calls.Add <= 1
    /\ calls.DeleteAndRetry <= 1
    /\ calls.DeleteAndRetry = 1 => (calls.Add = 1 /\ addErr = ErrNodeAdd)

\* C10: in every run node.Add is called at most once and the recovery at most
\* once, and only after node.Add returned an error; Run never loops (every step
\* moves forward in the order of its statements) and, once the flag is parsed,
\* never stops before it has ended in success or in an exit
C10_BoundedRecovery ==
    /\ []C10_AtMostOnce
    /\ [][Rank(pc') > Rank(pc)]_pc
    /\ [](Running => (pc = "parseOSFlag" \/ ENABLED StepAfterParse))

C10_Witness ==
    /\ calls.Add = 1
    /\ calls.DeleteAndRetry = 1
    /\ pc = "done"

\* the configuration on disk is the working copy
Saved == profile = [k \in DOMAIN profile |-> cc[k]]

\* C11: the configuration is saved at most once per run, and only after node.Add
\* succeeded or the one recovery succeeded; when node.Add and the recovery both
\* fail the run ends with GuestNodeAdd and nothing is saved; success is reported
\* only after SaveProfile returned without error, and a failed save ends the run
\* at once
C11_SaveOnceAfterSuccess ==
    /\ calls.SaveProfile <= 1
    /\ calls.SaveProfile = 1 =>
          /\ calls.Add = 1
          /\ addErr.nil \/ calls.DeleteAndRetry = 1
          /\ exitReason # "GuestNodeAdd"
    /\ exitReason = "GuestNodeAdd" =>
          (pc = "exit" /\ addErr = ErrNodeAdd /\ calls.SaveProfile = 0)
    /\ Printed("StepSuccessfullyAdded") =>
          (calls.SaveProfile = 1 /\ Saved /\ exitReason = "none")
    /\ exitReason = "HostSaveProfile" =>
          (pc = "exit" /\ calls.SaveProfile = 1 /\ ~Printed("StepSuccessfullyAdded"))

C11_Witness ==
    /\ Printed("StepSuccessfullyAdded")
    /\ addErr = ErrNodeAdd
    /\ calls.SaveProfile = 1
    /\ Saved

\* C16: the Windows-version check is applied only to a windows descriptor: a run
\* whose descriptor parsed to the kind linux never ends in a usage error (the
\* parse and the OS check having passed, and the control-plane check concerning
\* windows alone, the version check is the only usage error left to it)
C16_VersionCheckOnlyForWindows ==
    ~(pc = "exit" /\ exitReason = "Usage" /\ err.nil /\ osType = StrLinux)

\* the nodes of the cluster before this run's node was added
Before ==
    IF calls.Add = 0 THEN cc.Nodes ELSE SubSeq(cc.Nodes, 1, Len(cc.Nodes) - 1)
LastBefore == Before[Len(Before)].Name
Allocated == Loaded /\ name # NoName

\* C17: the new node's name encodes the id of the last existing node plus one;
\* when that node's name has no parsable id the id falls back to the number of
\* existing nodes, a diagnostic is printed and the run still reaches node.Add;
\* on a cluster whose only node has id 1 the new name encodes id 2
C17_NameFollowsLastNode ==
    /\ Allocated =>
          /\ ~IDFails(LastBefore) =>
                (name = Name(ID(LastBefore) + 1) /\ ~Printed("ErrLnLastNodeIndex"))
          /\ IDFails(LastBefore) =>
                (name = Name(Len(Before) + 1) /\ Printed("ErrLnLastNodeIndex"))
          /\ ~IDFails(name)
          /\ ID(name) = (IF IDFails(LastBefore) THEN Len(Before) ELSE ID(LastBefore)) + 1
          /\ (Len(Before) = 1 /\ LastBefore = Name(1)) => name = Name(2)
    /\ (Loaded /\ pc = "exit") => (Allocated /\ calls.Add = 1)

C17_Witness ==
    /\ Allocated
    /\ IDFails(LastBefore)
    /\ Len(Before) = 2
    /\ name = Name(3)
    /\ calls.Add = 1

\* Run is past the adjustment of the shared defaults
Adjusted ==
    Loaded /\ pc \notin {"checkBareMetal", "checkHA", "allocateName", "adjustDefaults"}
ProfileSaved == pc \in {"out.Step", "done"}

\* C18: cc.Memory is changed only when the cluster had exactly one node before
\* the add and the memory flag was never set, and then it becomes 2200; in every
\* other case it keeps the value the configuration was loaded with
C18_MemoryReducedOnlyOnSecondNode ==
    /\ ReducedMemory = 2200
    /\ (Loaded /\ ~ProfileSaved) =>
          cc.Memory = IF Adjusted /\ Len(Before) = 1 /\ ~memorySet
                      THEN ReducedMemory
                      ELSE profile.Memory
    /\ ProfileSaved => profile.Memory = cc.Memory

C18_Witness ==
    /\ pc = "node.Add"
    /\ Len(cc.Nodes) = 1
    /\ cc.Memory = ReducedMemory
    /\ profile.Memory # ReducedMemory

WarnCount == Cardinality({i \in 1..Len(out) : out[i] = "WarnMultiNodeCNI"})

\* C19: a run that gets to the adjustment of the shared defaults prints the
\* multi-node CNI warning exactly once when the cluster had exactly one node
\* before the add and multi-node was not requested or the CNI is disabled, and
\* never otherwise; printing it changes nothing in the cluster configuration
C19_WarnOnceOnSecondNode ==
    /\ WarnCount =
          IF Adjusted /\ Len(Before) = 1 /\ (~cc.MultiNodeRequested \/ IsDisabled(cc))
          THEN 1 ELSE 0
    /\ pc = "node.Add" =>
          /\ \A k \in DOMAIN profile \ {"Memory"} : cc[k] = profile[k]
          /\ memorySet => cc.Memory = profile.Memory

C19_Witness ==
    /\ pc = "node.Add"
    /\ WarnCount = 1
    /\ memorySet
    /\ cc.MultiNodeRequested
    /\ IsDisabled(cc)

\* the names of the nodes in a list of nodes
NodeNames(nodes) == {nodes[i].Name : i \in 1..Len(nodes)}
UniqueNames(nodes) == Cardinality(NodeNames(nodes)) = Len(nodes)

\* C12: on a cluster that started with its primary node alone, whatever adds
\* (also on a last node without a parsable id) and deletions came before, the
\* name allocated for the new node differs from the name of every node already
\* in the cluster, so that the node names stay unique
C12_NamesStayUnique ==
    /\ UniqueNames(profile.Nodes)
    /\ Loaded => UniqueNames(cc.Nodes)
    /\ Allocated => name \notin NodeNames(Before)

C12_Witness ==
    /\ Allocated
    /\ calls.Add = 1
    /\ Len(Before) = 2
    /\ IDFails(Before[1].Name)
    /\ name = Name(4)

(***************************************************************************)
(* Properties of the powershell package (checked under SpecExec).          *)
(***************************************************************************)
\* the latest call ran its command and has returned
Returned == frame.pc = "idle" /\ result.ran
ReturnedFailure == Returned /\ ~result.err.nil

\* C13: when init() found no interpreter, every call of cmdOut or cmd fails with
\* ErrPowerShellNotFound and starts no child process
C13_NotFoundFailsAtOnce ==
    (powershell = StrEmpty /\ result.fn \in {"cmdOut", "cmd"}) =>
        (result.err = ErrPowerShellNotFound /\ children = 0)

InSession == frame.pc \in {"session.Run", "CmdOutSSH.return"}

\* C15: every remote call opens one session and the session is closed however
\* the call ends; when no session can be opened the error is returned with no
\* command run and nothing closed; the client is never closed; between calls no
\* session is open
C15_OneSessionPerCall ==
    /\ streams.opened = streams.closed + (IF InSession THEN 1 ELSE 0)
    /\ streams.ran = streams.closed + (IF frame.pc = "CmdOutSSH.return" THEN 1 ELSE 0)
    /\ streams.opened + streams.failed <= execCalls
    /\ (result.fn \in {"CmdOutSSH", "cmdSSH"} /\ ~result.ran) =>
          (result.err = ErrNewSession /\ result.stdout = StrEmpty)
    /\ ~streams.clientClosed
    /\ frame.pc = "idle" => streams.opened = streams.closed

C15_Witness ==
    /\ ReturnedFailure
    /\ result.fn = "cmdSSH"
    /\ streams.failed = 1
    /\ streams.closed = 2

ExecutingTags == {"[executing ==>]", "[executing]"}
InFlight == frame.pc # "idle"

\* C20: every call that gets to run its command writes exactly three entries to
\* the log, in this order: the command line, before the command runs; then the
\* captured stdout and the captured stderr, once it has ended, with or without
\* an error
C20_ThreeLogEntriesInOrder ==
    /\ \A i \in 1..Len(klog) :
          klog[i].tag \in (CASE i % 3 = 1 -> ExecutingTags
                             [] i % 3 = 2 -> {"[stdout =====>]"}
                             [] OTHER -> {"[stderr =====>]"})
    /\ Len(klog) = 3 * (execCalls - streams.failed) - (IF InFlight THEN 2 ELSE 0)
    /\ InFlight => klog[Len(klog)].text = frame.command
    /\ Returned =>
          /\ klog[Len(klog) - 1].text = buffers.stdout
          /\ klog[Len(klog)].text = buffers.stderr

C20_Witness ==
    /\ ReturnedFailure
    /\ Len(klog) = 6
    /\ klog[1].tag = "[executing ==>]"
    /\ klog[4].tag = "[executing]"
    /\ klog[6].text = StrErr

====
